---- MODULE Spec2Model ----
(***************************************************************************)
(* Model of robbym/json-schema: the two generate_validator definitions     *)
(* (src/src/lib.rs and src/src/validator.rs) and the Validator trait       *)
(* objects they return.  A run picks a schema, compiles it with one of the *)
(* two definitions and, when compilation returned Ok, validates instances *)
(* with the returned validator, one call after the other.                  *)
(*                                                                         *)
(* serde_json::Value is a tagged record:                                   *)
(*   [t |-> "Null"], [t |-> "Bool", b], [t |-> "Number", n],               *)
(*   [t |-> "String", s], [t |-> "Array", a], [t |-> "Object", o]          *)
(* serde_json::Number is [k, v] with k the variant of its private enum N   *)
(* (PosInt(u64), NegInt(i64), Float(f64)).  v is the integer itself for    *)
(* PosInt / NegInt and the float counted in units of 1/FloatDenom for      *)
(* Float, so Float 1.0 is [k |-> "Float", v |-> FloatDenom].               *)
(* A Map<String, Value> is a function from its key set to Values.          *)
(***************************************************************************)
EXTENDS Integers, Sequences, FiniteSets, TLC

VARIABLES schema, impl, pc, outcome, instance, verdict

vars == <<schema, impl, pc, outcome, instance, verdict>>

---------------------------------------------------------------------------
(* Bounds of the explored input space *)

\* largest magnitude of an integer-shaped or float-shaped number
MaxNum == 1
\* floats are the multiples of 1/FloatDenom
FloatDenom == 2
\* longest array (enum list, const array, instance array)
MaxLen == 2
\* most keys in one schema object
MaxKeys == 2

---------------------------------------------------------------------------
(* serde_json::Value constructors *)

Null == [t |-> "Null"]

Bool(b) == [t |-> "Bool", b |-> b]

PosInt(v) == [t |-> "Number", n |-> [k |-> "PosInt", v |-> v]]

NegInt(v) == [t |-> "Number", n |-> [k |-> "NegInt", v |-> v]]

Float(v) == [t |-> "Number", n |-> [k |-> "Float", v |-> v]]

String(s) == [t |-> "String", s |-> s]

Array(a) == [t |-> "Array", a |-> a]

Object(o) == [t |-> "Object", o |-> o]

---------------------------------------------------------------------------
(* serde_json equality and conversion *)

\* PartialEq of serde_json::Number: same variant of N and same payload;
\* an integer variant never equals a Float variant.
NumberEq(n1, n2) == n1.k = n2.k /\ n1.v = n2.v

\* Number::as_f64: the integer variants are converted to f64, a Float is
\* returned as stored.  The result is in units of 1/FloatDenom.  Every
\* integer of the explored range is exactly representable as an f64.
as_f64(n) == IF n.k = "Float" THEN n.v ELSE n.v * FloatDenom

RECURSIVE ValueEq(_, _)
\* PartialEq of serde_json::Value, as used by `&self.value == value`:
\* same variant, then payloads compared; Vec element by element in order,
\* Map by key set and per-key value.
ValueEq(x, y) ==
    /\ x.t = y.t
    /\ CASE x.t = "Null" -> TRUE
         [] x.t = "Bool" -> x.b = y.b
         [] x.t = "Number" -> NumberEq(x.n, y.n)
         [] x.t = "String" -> x.s = y.s
         [] x.t = "Array" ->
               /\ Len(x.a) = Len(y.a)
               /\ \A i \in 1..Len(x.a) : ValueEq(x.a[i], y.a[i])
         [] x.t = "Object" ->
               /\ DOMAIN x.o = DOMAIN y.o
               /\ \A key \in DOMAIN x.o : ValueEq(x.o[key], y.o[key])

---------------------------------------------------------------------------
(* Validators *)

TrueValidator == [kind |-> "TrueValidator"]

FalseValidator == [kind |-> "FalseValidator"]

ConstValidator(value) == [kind |-> "ConstValidator", value |-> value]

EnumValidator(validators) == [kind |-> "EnumValidator", validators |-> validators]

MinimumValidator(value) == [kind |-> "MinimumValidator", value |-> value]

TrueValidator_validate(self, value) == TRUE

FalseValidator_validate_always(self, value) == TRUE

FalseValidator_validate(self, value) == FALSE

ConstValidator_validate_shallow(self, value) == self.value.t = value.t

ConstValidator_validate(self, value) == ValueEq(self.value, value)

\* as_f64 is always Some without the arbitrary_precision feature, so the
\* `else { false }` branch of the inner if-let is never taken.
MinimumValidator_validate(self, value) ==
    IF value.t = "Number"
    THEN as_f64(self.value) <= as_f64(value.n)
    ELSE TRUE

RECURSIVE validate(_, _)
\* Dynamic dispatch of Validator::validate on the boxed trait object.
validate(self, value) ==
    CASE self.kind = "TrueValidator" -> TrueValidator_validate(self, value)
      [] self.kind = "FalseValidator" -> FalseValidator_validate(self, value)
      [] self.kind = "ConstValidator" -> ConstValidator_validate(self, value)
      [] self.kind = "EnumValidator" ->
            \E i \in 1..Len(self.validators) : validate(self.validators[i], value)
      [] self.kind = "MinimumValidator" -> MinimumValidator_validate(self, value)

---------------------------------------------------------------------------
(* Results of generate_validator *)

Ok(validator) == [tag |-> "Ok", validator |-> validator]

Err(value) == [tag |-> "Err", value |-> value]

\* A failed assert!, assert_matches! or an unimplemented!() unwinds out of
\* generate_validator: no Result is returned.
Panic(msg) == [tag |-> "Panic", msg |-> msg]

NotCalled == [tag |-> "NotCalled"]

\* items.iter().map(|val| Box::new(ConstValidator { value: val.clone() })).collect()
ConstValidators(items) == [i \in 1..Len(items) |-> ConstValidator(items[i])]

\* generate_validator of src/src/lib.rs
lib_generate_validator(s) ==
    IF s.t = "Object" THEN
        LET obj == s.o
            len == Cardinality(DOMAIN obj)
        IN  IF "const" \in DOMAIN obj THEN
                IF len # 1 THEN Panic("assert")
                ELSE Ok(ConstValidator(obj["const"]))
            ELSE IF "enum" \in DOMAIN obj THEN
                IF len # 1 THEN Panic("assert")
                ELSE IF obj["enum"].t # "Array" THEN Panic("assert_matches")
                ELSE Ok(EnumValidator(ConstValidators(obj["enum"].a)))
            ELSE IF "minimum" \in DOMAIN obj THEN
                IF len # 1 THEN Panic("assert")
                ELSE IF obj["minimum"].t # "Number" THEN Panic("assert_matches")
                ELSE Ok(ConstValidator(obj["minimum"]))
            ELSE IF "type" \in DOMAIN obj THEN
                IF obj["type"].t # "String" THEN Panic("assert_matches")
                ELSE Panic("unimplemented")
            ELSE Ok(ConstValidator(s))
    ELSE IF s.t = "Bool" THEN
        IF s.b THEN Ok(TrueValidator) ELSE Ok(FalseValidator)
    ELSE Panic("unimplemented")

\* generate_validator of src/src/validator.rs
validator_generate_validator(s) ==
    IF s.t = "Object" THEN
        LET obj == s.o
            len == Cardinality(DOMAIN obj)
        IN  IF "const" \in DOMAIN obj THEN
                IF len # 1 THEN Panic("assert")
                ELSE Ok(ConstValidator(obj["const"]))
            ELSE IF "enum" \in DOMAIN obj THEN
                IF len # 1 THEN Panic("assert")
                ELSE IF obj["enum"].t # "Array" THEN Panic("assert_matches")
                ELSE Ok(EnumValidator(ConstValidators(obj["enum"].a)))
            ELSE IF "minimum" \in DOMAIN obj THEN
                IF len # 1 THEN Panic("assert")
                ELSE IF obj["minimum"].t # "Number" THEN Panic("assert_matches")
                ELSE Ok(MinimumValidator(obj["minimum"].n))
            ELSE IF "type" \in DOMAIN obj THEN
                IF obj["type"].t # "String" THEN Panic("assert_matches")
                ELSE Err(s)
            ELSE Ok(ConstValidator(s))
    ELSE IF s.t = "Bool" THEN
        IF s.b THEN Ok(TrueValidator) ELSE Ok(FalseValidator)
    ELSE Err(s)

---------------------------------------------------------------------------
(* Input space *)

SeqsUpTo(S, n) == UNION {[1..len -> S] : len \in 0..n}

Numbers ==
    {PosInt(v) : v \in 0..MaxNum}
    \cup {NegInt(v) : v \in (-MaxNum)..(-1)}
    \cup {Float(v) : v \in (-MaxNum * FloatDenom)..(MaxNum * FloatDenom)}

Strings == {String("hello"), String("a")}

Scalars == {Null, Bool(TRUE), Bool(FALSE)} \cup Numbers \cup Strings

\* values nested inside arrays and objects
Elems == {Null, PosInt(1), Float(FloatDenom), String("a")}

Arrays == {Array(a) : a \in SeqsUpTo(Elems, MaxLen)}

ObjKeys == {"a", "foo"}

Objects == {Object(o) : o \in UNION {[D -> Elems] : D \in SUBSET ObjKeys}}

Instances == Scalars \cup Arrays \cup Objects

\* elements of an enum list
EnumElems == {Null, PosInt(1), Float(FloatDenom), String("a"), Array(<<PosInt(1)>>)}

EnumLists == {Array(a) : a \in SeqsUpTo(EnumElems, MaxLen)}

SchemaKeys == {"const", "enum", "minimum", "type", "maximum", "foo"}

\* values a keyword takes when it is the only key of the schema object
KeywordValues(key) ==
    CASE key = "const" -> Instances
      [] key = "enum" -> EnumLists \cup {String("a")}
      [] key = "minimum" -> Numbers \cup {String("a")}
      [] key = "type" -> {String("string"), String("integer"), PosInt(1)}
      [] key = "maximum" -> {PosInt(1)}
      [] key = "foo" -> {PosInt(1)}

\* values a keyword takes when the schema object has several keys
SiblingValues(key) ==
    CASE key = "const" -> {PosInt(1), String("a")}
      [] key = "enum" -> {Array(<<PosInt(1), String("a")>>), Array(<<Null>>)}
      [] key = "minimum" -> {PosInt(0), Float(FloatDenom)}
      [] key = "type" -> {String("string"), PosInt(1)}
      [] key = "maximum" -> {PosInt(1)}
      [] key = "foo" -> {PosInt(1)}

SingleKeySchemas ==
    UNION {{Object([key \in {k} |-> v]) : v \in KeywordValues(k)} : k \in SchemaKeys}

AllSiblingValues == UNION {SiblingValues(k) : k \in SchemaKeys}

MultiKeySchemas ==
    UNION {{Object(o) : o \in {f \in [D -> AllSiblingValues] :
                                  \A k \in D : f[k] \in SiblingValues(k)}} :
           D \in {D \in SUBSET SchemaKeys : Cardinality(D) \in 2..MaxKeys}}

Schemas ==
    {Bool(TRUE), Bool(FALSE)}
    \cup (Scalars \ {Bool(TRUE), Bool(FALSE)})
    \cup Arrays
    \cup {Object(<<>>)}
    \cup SingleKeySchemas
    \cup MultiKeySchemas

---------------------------------------------------------------------------
(* State machine *)

Init ==
    /\ schema \in Schemas
    /\ impl = "none"
    /\ pc = "start"
    /\ outcome = NotCalled
    /\ instance = Null
    /\ verdict = FALSE

Compiled(result) ==
    /\ outcome' = result
    /\ pc' = IF result.tag = "Panic" THEN "panicked" ELSE "compiled"
    /\ UNCHANGED <<schema, instance, verdict>>

\* a caller of src/src/lib.rs compiles the schema
LibGenerateValidator ==
    /\ pc = "start"
    /\ impl' = "lib"
    /\ Compiled(lib_generate_validator(schema))

\* a caller of src/src/validator.rs compiles the schema
ValidatorGenerateValidator ==
    /\ pc = "start"
    /\ impl' = "validator"
    /\ Compiled(validator_generate_validator(schema))

\* validator.validate(&test.data) on the Ok arm; the validator is borrowed
\* immutably, so it can be called again with the next instance
Validate ==
    /\ pc \in {"compiled", "validated"}
    /\ outcome.tag = "Ok"
    /\ \E value \in Instances :
          /\ instance' = value
          /\ verdict' = validate(outcome.validator, value)
    /\ pc' = "validated"
    /\ UNCHANGED <<schema, impl, outcome>>

Next ==
    \/ LibGenerateValidator
    \/ ValidatorGenerateValidator
    \/ Validate

Spec == Init /\ [][Next]_vars

TypeOK ==
    /\ schema \in Schemas
    /\ impl \in {"none", "lib", "validator"}
    /\ pc \in {"start", "compiled", "panicked", "validated"}
    /\ outcome.tag \in {"NotCalled", "Ok", "Err", "Panic"}
    /\ instance \in Instances
    /\ verdict \in BOOLEAN

---------------------------------------------------------------------------
(* Vocabulary of the properties *)

\* the schema object {key: value}
SingleKey(key, value) == Object([k \in {key} |-> value])

\* the mathematical value of a number, in units of 1/FloatDenom
MathValue(n) == IF n.k = "Float" THEN n.v ELSE FloatDenom * n.v

RECURSIVE StructurallyEqual(_, _)
\* Structural equality of the specification: deep, arrays order-sensitive,
\* object keys order-insensitive, numbers equal when their mathematical
\* values are equal whatever their representation.
StructurallyEqual(x, y) ==
    /\ x.t = y.t
    /\ CASE x.t = "Null" -> TRUE
         [] x.t = "Bool" -> x.b = y.b
         [] x.t = "Number" -> MathValue(x.n) = MathValue(y.n)
         [] x.t = "String" -> x.s = y.s
         [] x.t = "Array" ->
               /\ Len(x.a) = Len(y.a)
               /\ \A i \in 1..Len(x.a) : StructurallyEqual(x.a[i], y.a[i])
         [] x.t = "Object" ->
               /\ DOMAIN x.o = DOMAIN y.o
               /\ \A key \in DOMAIN x.o : StructurallyEqual(x.o[key], y.o[key])

Called == pc # "start"

IsConstSchema == schema.t = "Object" /\ DOMAIN schema.o = {"const"}

IsEnumSchema ==
    /\ schema.t = "Object"
    /\ DOMAIN schema.o = {"enum"}
    /\ schema.o["enum"].t = "Array"

IsMinimumSchema ==
    /\ schema.t = "Object"
    /\ DOMAIN schema.o = {"minimum"}
    /\ schema.o["minimum"].t = "Number"

\* some element of the list is structurally equal to the value
EqualsSome(list, value) == \E j \in 1..Len(list) : StructurallyEqual(list[j], value)

\* the keywords this build implements
Implemented == {"const", "enum", "minimum"}

\* draft-07 keywords of the explored key set that this build does not implement
Unimplemented == {"type", "maximum"}

\* what one implemented keyword alone demands of an instance
KeywordAccepts(key, val, value) ==
    CASE key = "const" -> StructurallyEqual(val, value)
      [] key = "enum" -> EqualsSome(val.a, value)
      [] key = "minimum" ->
            value.t = "Number" => MathValue(val.n) <= MathValue(value.n)

---------------------------------------------------------------------------
(* Properties *)

\* C1: a boolean schema compiles, with either definition, to Ok; the
\* validator of `true` accepts every instance and the validator of `false`
\* rejects every instance, Null included.
C1_BooleanSchema ==
    (schema.t = "Bool" /\ Called) =>
        /\ outcome.tag = "Ok"
        /\ \A value \in Instances : validate(outcome.validator, value) = schema.b
        /\ (pc = "validated" => verdict = schema.b)

C1_Witness ==
    /\ pc = "validated"
    /\ schema = Bool(FALSE)
    /\ instance = Null
    /\ verdict = FALSE

\* C2: {"const": v} compiles to Ok; the validator accepts v itself and
\* rejects every instance that is structurally different from v.
C2_ConstRoundTrip ==
    (IsConstSchema /\ Called) =>
        LET v == schema.o["const"]
        IN  /\ outcome.tag = "Ok"
            /\ validate(outcome.validator, v)
            /\ \A value \in Instances :
                  ~StructurallyEqual(v, value) => ~validate(outcome.validator, value)
            /\ (pc = "validated" =>
                  /\ (instance = v => verdict)
                  /\ (~StructurallyEqual(v, instance) => ~verdict))

C2_Witness ==
    /\ pc = "validated"
    /\ schema = SingleKey("const", Array(<<Null, String("a")>>))
    /\ instance = Array(<<String("a"), Null>>)
    /\ verdict = FALSE

\* C3: for a non-empty list L, the validator of {"enum": L} accepts an
\* instance if and only if the instance structurally equals an element of L.
C3_EnumMembership ==
    (IsEnumSchema /\ Called) =>
        LET L == schema.o["enum"].a
        IN  Len(L) > 0 =>
               /\ outcome.tag = "Ok"
               /\ (pc = "validated" => (verdict <=> EqualsSome(L, instance)))

\* C4: with each definition, {"minimum": m} compiles to Ok; the validator
\* accepts every non-number and accepts a number n if and only if n >= m by
\* mathematical value.
C4_MinimumSemantics ==
    (IsMinimumSchema /\ Called) =>
        LET m == schema.o["minimum"]
        IN  /\ outcome.tag = "Ok"
            /\ (pc = "validated" =>
                  (verdict <=> (instance.t = "Number" =>
                                   MathValue(m.n) <= MathValue(instance.n))))

\* C5: const and enum compare numbers by mathematical value: an instance
\* that equals the const value (or an enum element) up to the integer or
\* float shape of the numbers in it, nested ones included, is accepted.
C5_NumericEquality ==
    pc = "validated" =>
        /\ (IsConstSchema /\ StructurallyEqual(schema.o["const"], instance) => verdict)
        /\ (IsEnumSchema /\ EqualsSome(schema.o["enum"].a, instance) => verdict)

\* C6: compiling {"enum": []} is a compile error.
C6_EmptyEnumIsError ==
    (schema = SingleKey("enum", Array(<<>>)) /\ Called) => outcome.tag = "Err"

\* C7: a schema object without any draft-07 keyword compiles to Accept-All.
C7_NoKeywordAcceptsAll ==
    (/\ schema.t = "Object"
     /\ DOMAIN schema.o \cap (Implemented \cup Unimplemented) = {}
     /\ Called) =>
        /\ outcome.tag = "Ok"
        /\ (pc = "validated" => verdict)

\* C8: a schema object that contains a draft-07 keyword this build does not
\* implement is a compile error.
C8_UnimplementedIsError ==
    (/\ schema.t = "Object"
     /\ DOMAIN schema.o \cap Unimplemented # {}
     /\ Called) =>
        outcome.tag = "Err"

\* C9: with each definition, compilation of any schema value ends in Ok or
\* Err, never in a panic.
C9_NeverPanics ==
    Called => outcome.tag \in {"Ok", "Err"}

\* C10: a schema object with several implemented keywords, each with a
\* value of the right type, compiles to Ok and its validator accepts an
\* instance if and only if every keyword present accepts it.
C10_Conjunctive ==
    (/\ schema.t = "Object"
     /\ DOMAIN schema.o \subseteq Implemented
     /\ Cardinality(DOMAIN schema.o) >= 2
     /\ ("enum" \in DOMAIN schema.o => schema.o["enum"].t = "Array")
     /\ ("minimum" \in DOMAIN schema.o => schema.o["minimum"].t = "Number")
     /\ Called) =>
        /\ outcome.tag = "Ok"
        /\ (pc = "validated" =>
              (verdict <=> \A key \in DOMAIN schema.o :
                              KeywordAccepts(key, schema.o[key], instance)))

====
